---- MODULE Spec2Model ----
(***************************************************************************)
(* One-vs-all logistic regression, examples/machine_learning/              *)
(* logistic_regression.cpp: accuracy, sigmoid, predict, cost and train.    *)
(*                                                                         *)
(* Numbers.  The arrays of the program hold IEEE single precision values.  *)
(* Here a number is a record: [k |-> "fin", v |-> n] is the finite value   *)
(* n / Scale, [k |-> "inf", v |-> 1 or -1] is +infinity or -infinity and   *)
(* [k |-> "nan"] is NaN.  Finite values have magnitude at most FMax/Scale  *)
(* (the analogue of FLT_MAX) and are rounded to the nearest multiple of    *)
(* 1/Scale (the analogue of the 24 bit mantissa): a result beyond the      *)
(* range overflows to an infinity, and the special values follow the IEEE  *)
(* rules (inf - inf, 0 * inf and 0 / 0 are NaN, a comparison with NaN is   *)
(* false).                                                                 *)
(*                                                                         *)
(* Arrays.  A two dimensional array is a sequence of rows, each a sequence *)
(* of numbers.  Row and column 0 of the program are row and column 1 here. *)
(***************************************************************************)
EXTENDS Integers, Sequences, FiniteSets

\* Resolution of the finite values: one unit is 1/Scale.
Scale == 100
\* Largest finite magnitude, in units.
FMax == 40000
\* Largest maxiter a caller passes to train.
MaxIter == 13
\* Number of rows of the arrays handed to accuracy on their own.
AccRows == 2

----------------------------------------------------------------------------
(* Scalar arithmetic of the array library's element type.                   *)

Fin(n) == [k |-> "fin", v |-> n]
NaN == [k |-> "nan", v |-> 0]
PInf == [k |-> "inf", v |-> 1]
NInf == [k |-> "inf", v |-> -1]

IsFinite(a) == a.k = "fin"
IsNaN(a) == a.k = "nan"

Abs(n) == IF n < 0 THEN -n ELSE n
Sgn(n) == IF n < 0 THEN -1 ELSE IF n > 0 THEN 1 ELSE 0

\* n / d for d > 0, rounded to the nearest integer, halves away from zero.
RDiv(n, d) == Sgn(n) * ((Abs(n) + d \div 2) \div d)

\* A computed finite value: overflow gives an infinity.
Round(n) == IF n > FMax THEN PInf ELSE IF n < -FMax THEN NInf ELSE Fin(n)

\* The literal n of the program text (an int or a whole double).
Num(n) == Fin(n * Scale)

FNeg(a) == IF a.k = "nan" THEN NaN ELSE [k |-> a.k, v |-> -a.v]

FAdd(a, b) ==
    IF a.k = "nan" \/ b.k = "nan" THEN NaN
    ELSE IF a.k = "inf" THEN (IF b.k = "inf" /\ b.v # a.v THEN NaN ELSE a)
    ELSE IF b.k = "inf" THEN b
    ELSE Round(a.v + b.v)

FSub(a, b) == FAdd(a, FNeg(b))

FMul(a, b) ==
    IF a.k = "nan" \/ b.k = "nan" THEN NaN
    ELSE IF a.k = "inf" \/ b.k = "inf"
         THEN (IF Sgn(a.v) * Sgn(b.v) = 0 THEN NaN
               ELSE [k |-> "inf", v |-> Sgn(a.v) * Sgn(b.v)])
    ELSE Round(RDiv(a.v * b.v, Scale))

FDiv(a, b) ==
    IF a.k = "nan" \/ b.k = "nan" THEN NaN
    ELSE IF a.k = "inf"
         THEN (IF b.k = "inf" THEN NaN
               ELSE [k |-> "inf", v |-> a.v * (IF b.v < 0 THEN -1 ELSE 1)])
    ELSE IF b.k = "inf" THEN Fin(0)
    ELSE IF b.v = 0
         THEN (IF a.v = 0 THEN NaN ELSE [k |-> "inf", v |-> Sgn(a.v)])
    ELSE Round(Sgn(b.v) * RDiv(a.v * Scale, Abs(b.v)))

\* a < b: false as soon as one side is NaN.
FLt(a, b) ==
    IF a.k = "nan" \/ b.k = "nan" THEN FALSE
    ELSE IF a.k = "inf" THEN (a.v < 0 /\ ~(b.k = "inf" /\ b.v < 0))
    ELSE IF b.k = "inf" THEN b.v > 0
    ELSE a.v < b.v

\* a > b.
FGt(a, b) == FLt(b, a)

\* e^a: halve the argument down to [-1/2, 1/2], there the Taylor polynomial
\* of degree 4, then square back.  A square beyond the range is +infinity.
RECURSIVE exp(_)
exp(a) ==
    IF a.k = "nan" THEN NaN
    ELSE IF a.k = "inf" THEN (IF a.v > 0 THEN PInf ELSE Fin(0))
    ELSE IF 2 * Abs(a.v) > Scale
         THEN LET h == exp(Fin(RDiv(a.v, 2))) IN FMul(h, h)
    ELSE LET z2 == FMul(a, a)
             z3 == FMul(z2, a)
             z4 == FMul(z3, a)
         IN  FAdd(FAdd(FAdd(FAdd(Num(1), a), FDiv(z2, Num(2))),
                       FDiv(z3, Num(6))), FDiv(z4, Num(24)))

\* ln 2, in units.
Ln2 == RDiv(693147 * Scale, 1000000)

\* ln a: log(0) is -infinity, the log of a negative number is NaN.  A
\* positive argument is doubled or halved into [1, 2), where
\* ln x = 2 (u + u^3/3 + u^5/5) with u = (x - 1) / (x + 1).
RECURSIVE log(_)
log(a) ==
    IF a.k = "nan" THEN NaN
    ELSE IF a.k = "inf" THEN (IF a.v > 0 THEN PInf ELSE NaN)
    ELSE IF a.v < 0 THEN NaN
    ELSE IF a.v = 0 THEN NInf
    ELSE IF a.v < Scale THEN FSub(log(Fin(2 * a.v)), Fin(Ln2))
    ELSE IF a.v >= 2 * Scale THEN FAdd(log(Fin(RDiv(a.v, 2))), Fin(Ln2))
    ELSE LET u  == FDiv(Fin(a.v - Scale), Fin(a.v + Scale))
             u2 == FMul(u, u)
             u3 == FMul(u2, u)
             u5 == FMul(u3, u2)
         IN  FMul(Num(2), FAdd(FAdd(u, FDiv(u3, Num(3))), FDiv(u5, Num(5))))

----------------------------------------------------------------------------
(* Array operations of the library, as the program calls them.              *)

Rows(A) == Len(A)
Cols(A) == IF Len(A) = 0 THEN 0 ELSE Len(A[1])
Dims(A) == <<Rows(A), Cols(A)>>

\* constant(val, d0, d1): a d0 x d1 array filled with val.
constant(val, d0, d1) == [r \in 1..d0 |-> [c \in 1..d1 |-> val]]

\* Element-wise f over one array, and over two arrays of the same shape.
Map1(f(_), A) == [r \in 1..Rows(A) |-> [c \in 1..Cols(A) |-> f(A[r][c])]]
Map2(f(_, _), A, B) ==
    [r \in 1..Rows(A) |-> [c \in 1..Cols(A) |-> f(A[r][c], B[r][c])]]

\* s[1] + s[2] + ... from the left, starting at 0.
RECURSIVE SumSeq(_)
SumSeq(s) ==
    IF Len(s) = 0 THEN Fin(0)
    ELSE FAdd(SumSeq(SubSeq(s, 1, Len(s) - 1)), s[Len(s)])

\* A.T()
T(A) == [c \in 1..Cols(A) |-> [r \in 1..Rows(A) |-> A[r][c]]]

\* matmul(A, B)
matmul(A, B) ==
    [r \in 1..Rows(A) |-> [c \in 1..Cols(B) |->
        SumSeq([t \in 1..Cols(A) |-> FMul(A[r][t], B[t][c])])]]

\* sum(A) as cost calls it, with no result type named (count<float> and
\* alltrue<bool> are the reductions of a whole array to one host value): the
\* reduction along the first dimension, one total per column, a
\* 1 x Cols(A) array.
sum(A) == << [c \in 1..Cols(A) |-> SumSeq([r \in 1..Rows(A) |-> A[r][c]])] >>

\* max(val, idx, A, 1): the index of the maximum of each row, the lowest
\* index among equal maxima; idx has one entry per row.
MaxIdx(A) ==
    [r \in 1..Rows(A) |->
        CHOOSE c \in 1..Cols(A) :
            /\ \A d \in 1..Cols(A) : ~FGt(A[r][d], A[r][c])
            /\ \A d \in 1..(c - 1) : FLt(A[r][d], A[r][c])]

\* count<float>(a == b) for two index vectors: the number of equal entries.
CountEq(a, b) == Cardinality({r \in 1..Len(a) : a[r] = b[r]})

\* alltrue<bool>(A < t)
AllLt(A, t) == \A r \in 1..Rows(A) : \A c \in 1..Cols(A) : FLt(A[r][c], t)

----------------------------------------------------------------------------
(* The program.                                                             *)

\* The literal 0.1 of train's test and the literal 0.5 of cost.
Tenth == Fin(Scale \div 10)
Half == Fin(Scale \div 2)

\* accuracy without the factor 100.
accuracy_Fraction(predicted_, target_) ==
    LET tlabels == MaxIdx(target_)
        plabels == MaxIdx(predicted_)
    IN  FDiv(Num(CountEq(plabels, tlabels)), Num(Len(tlabels)))

accuracy(predicted_, target_) ==
    LET tlabels == MaxIdx(target_)
        plabels == MaxIdx(predicted_)
    IN  FDiv(FMul(Num(100), Num(CountEq(plabels, tlabels))), Num(Len(tlabels)))

sigmoid(val) ==
    LET f(v) == FDiv(Num(1), FAdd(Num(1), exp(FNeg(v)))) IN Map1(f, val)

predict(X_, Weights_) == sigmoid(matmul(X_, Weights_))

\* lambdat with column 0 set to 0 instead of row 0.
Lambdat_Column0(Weights_, lambda_) ==
    [r \in 1..Rows(Weights_) |-> [c \in 1..Cols(Weights_) |->
        IF c = 1 THEN Fin(0) ELSE lambda_]]

\* lambdat of cost, lines 48 and 49: lambda everywhere, then row 0 set to 0.
Lambdat(Weights_, lambda_) ==
    [r \in 1..Rows(Weights_) |-> [c \in 1..Cols(Weights_) |->
        IF r = 1 THEN Fin(0) ELSE lambda_]]

\* sum<float>(A) in the place of sum(A): one total over all entries.
SumAll(A) == << << SumSeq([c \in 1..Cols(A) |-> sum(A)[1][c]]) >> >>

\* J of cost with both reductions taken over all entries.
CostJ_Total(Weights_, X_, Y_, lambda_) ==
    LET m       == Rows(Y_)
        lambdat_ == Lambdat(Weights_, lambda_)
        H       == predict(X_, Weights_)
        OneMinus(v) == FSub(Num(1), v)
        LogOneMinus(v) == log(FSub(Num(1), v))
        DivM(v) == FDiv(v, Num(m))
        NegDivM(v) == FDiv(FNeg(v), Num(m))
        HalfTimes(v) == FMul(Half, v)
        J1 == Map1(NegDivM,
                   SumAll(Map2(FAdd, Map2(FMul, Y_, Map1(log, H)),
                                     Map2(FMul, Map1(OneMinus, Y_),
                                                Map1(LogOneMinus, H)))))
    IN  Map2(FAdd, J1,
             Map1(DivM, Map1(HalfTimes,
                  SumAll(Map2(FMul, Map2(FMul, lambdat_, Weights_), Weights_)))))

\* J of cost, lines 55 and 56.
CostJ(Weights_, X_, Y_, lambda_) ==
    LET m       == Rows(Y_)
        lambdat_ == Lambdat(Weights_, lambda_)
        H       == predict(X_, Weights_)
        OneMinus(v) == FSub(Num(1), v)
        LogOneMinus(v) == log(FSub(Num(1), v))
        DivM(v) == FDiv(v, Num(m))
        NegDivM(v) == FDiv(FNeg(v), Num(m))
        HalfTimes(v) == FMul(Half, v)
        J1 == Map1(NegDivM,
                   sum(Map2(FAdd, Map2(FMul, Y_, Map1(log, H)),
                                  Map2(FMul, Map1(OneMinus, Y_),
                                             Map1(LogOneMinus, H)))))
    IN  Map2(FAdd, J1,
             Map1(DivM, Map1(HalfTimes,
                  sum(Map2(FMul, Map2(FMul, lambdat_, Weights_), Weights_)))))

\* dJ with only the data term divided by m.
CostdJ_RegUnscaled(Weights_, X_, Y_, lambda_) ==
    LET m       == Rows(Y_)
        lambdat_ == Lambdat(Weights_, lambda_)
        H       == predict(X_, Weights_)
        D       == Map2(FSub, H, Y_)
        DivM(v) == FDiv(v, Num(m))
    IN  Map2(FAdd, Map1(DivM, matmul(T(X_), D)),
                   Map2(FMul, lambdat_, Weights_))

\* dJ with D taken from the cross-entropy terms instead of H - Y.
CostdJ_FromLoss(Weights_, X_, Y_, lambda_) ==
    LET m       == Rows(Y_)
        lambdat_ == Lambdat(Weights_, lambda_)
        H       == predict(X_, Weights_)
        OneMinus(v) == FSub(Num(1), v)
        LogOneMinus(v) == log(FSub(Num(1), v))
        D       == Map2(FAdd, Map2(FMul, Y_, Map1(log, H)),
                              Map2(FMul, Map1(OneMinus, Y_),
                                         Map1(LogOneMinus, H)))
        DivM(v) == FDiv(v, Num(m))
    IN  Map1(DivM, Map2(FAdd, matmul(T(X_), D),
                              Map2(FMul, lambdat_, Weights_)))

\* dJ of cost, lines 59 and 60.
CostdJ(Weights_, X_, Y_, lambda_) ==
    LET m       == Rows(Y_)
        lambdat_ == Lambdat(Weights_, lambda_)
        H       == predict(X_, Weights_)
        D       == Map2(FSub, H, Y_)
        DivM(v) == FDiv(v, Num(m))
    IN  Map1(DivM, Map2(FAdd, matmul(T(X_), D),
                              Map2(FMul, lambdat_, Weights_)))

\* cost(J, dJ, Weights, X, Y, lambda): what it writes.
cost(Weights_, X_, Y_, lambda_) ==
    [J       |-> CostJ(Weights_, X_, Y_, lambda_),
     dJ      |-> CostdJ(Weights_, X_, Y_, lambda_),
     lambdat |-> Lambdat(Weights_, lambda_)]

\* Initial parameters with the two dimensions exchanged.
InitWeights_Swapped(X_, Y_) == constant(Fin(0), Cols(Y_), Cols(X_))

\* constant(0, X.dims(1), Y.dims(1)), line 68.
InitWeights(X_, Y_) == constant(Fin(0), Cols(X_), Cols(Y_))

\* The loop condition with <= in the place of <.
LoopCond_OffByOne(i_, maxiter_) == i_ <= maxiter_

\* i < maxiter, line 71.
LoopCond(i_, maxiter_) == i_ < maxiter_

\* Weights - alpha * dJ, line 78.
Descend(Weights_, alpha_, dJ_) ==
    LET AlphaTimes(v) == FMul(alpha_, v)
    IN  Map2(FSub, Weights_, Map1(AlphaTimes, dJ_))

----------------------------------------------------------------------------
(* Inputs.                                                                  *)

Mat(rows) == [r \in 1..Len(rows) |-> [c \in 1..Len(rows[r]) |-> Num(rows[r][c])]]

\* Training sets <<X, Y>>: X has the bias column of ones first (lr_demo,
\* line 126), Y is one-hot with as many rows as X.
Data ==
    { <<Mat(<< <<1, 0>>, <<1, 1>> >>), Mat(<< <<1, 0>>, <<0, 1>> >>)>>,
      <<Mat(<< <<1, 0>>, <<1, 1>> >>), Mat(<< <<0, 1>>, <<1, 0>> >>)>>,
      <<Mat(<< <<1, 0>>, <<1, 1>> >>), Mat(<< <<1, 0>>, <<1, 0>> >>)>>,
      <<Mat(<< <<1, -1>>, <<1, 1>> >>), Mat(<< <<1, 0>>, <<0, 1>> >>)>>,
      <<Mat(<< <<1, 0>>, <<1, 1>>, <<1, 2>> >>),
        Mat(<< <<1, 0>>, <<0, 1>>, <<0, 1>> >>)>>,
      <<Mat(<< <<1, 0, 1>>, <<1, 1, 0>> >>), Mat(<< <<1, 0>>, <<0, 1>> >>)>> }

Alphas == { Num(1), Num(4) }
Lambdas == { Num(0), Num(1) }
MaxIters == { -1, 0, 1, 2, MaxIter - 1, MaxIter }

\* Arrays handed to accuracy on their own: AccRows rows, two columns.
Probs == { Fin(0), Half, Num(1) }
Predictions == [1..AccRows -> [1..2 -> Probs]]
OneHots == [1..AccRows -> { <<Num(1), Num(0)>>, <<Num(0), Num(1)>> }]

----------------------------------------------------------------------------
(* State.                                                                   *)

VARIABLES
    X, Y, alpha, lambda, maxiter,   \* the arguments of train
    Weights, J, dJ, i,              \* the locals of train
    lambdat,                        \* the local mask of the last cost call
    pc,                             \* the statement control is at
    outcome,                        \* how train ended
    nCost, nFail, nUpd,             \* calls of cost, failed tests, updates
    Wm,                             \* the Weights the last cost call was given
    predicted, target, acc          \* the arguments and the result of accuracy

vars == <<X, Y, alpha, lambda, maxiter, Weights, J, dJ, i, lambdat, pc,
          outcome, nCost, nFail, nUpd, Wm, predicted, target, acc>>

inputs == <<X, Y, alpha, lambda, maxiter>>
counters == <<nCost, nFail, nUpd>>
accvars == <<predicted, target, acc>>

\* train is entered: Weights = constant(0, X.dims(1), Y.dims(1)), J and dJ
\* are empty arrays, i = 0.
Init ==
    /\ \E d \in Data : X = d[1] /\ Y = d[2]
    /\ alpha \in Alphas
    /\ lambda \in Lambdas
    /\ maxiter \in MaxIters
    /\ Weights = InitWeights(X, Y)
    /\ J = <<>>
    /\ dJ = <<>>
    /\ lambdat = <<>>
    /\ i = 0
    /\ pc = "loop"
    /\ outcome = "none"
    /\ nCost = 0 /\ nFail = 0 /\ nUpd = 0
    /\ Wm = <<>>
    /\ predicted = <<>> /\ target = <<>> /\ acc = Fin(0)

\* cost called with Weights taken by reference and its row 0 cleared in the
\* place of lambdat's.
TrainCost_ClearsWeights ==
    /\ pc = "loop"
    /\ LoopCond(i, maxiter)
    /\ LET out == cost(Weights, X, Y, lambda)
       IN  /\ J' = out.J
           /\ dJ' = out.dJ
           /\ lambdat' = out.lambdat
    /\ Weights' = [r \in 1..Rows(Weights) |-> [c \in 1..Cols(Weights) |->
                      IF r = 1 THEN Fin(0) ELSE Weights[r][c]]]
    /\ Wm' = Weights
    /\ nCost' = nCost + 1
    /\ pc' = "test"
    /\ UNCHANGED <<inputs, i, outcome, nFail, nUpd, accvars>>

\* Line 71 true, line 74: cost(J, dJ, Weights, X, Y, lambda).
TrainCost ==
    /\ pc = "loop"
    /\ LoopCond(i, maxiter)
    /\ LET out == cost(Weights, X, Y, lambda)
       IN  /\ J' = out.J
           /\ dJ' = out.dJ
           /\ lambdat' = out.lambdat
    /\ Wm' = Weights
    /\ nCost' = nCost + 1
    /\ pc' = "test"
    /\ UNCHANGED <<inputs, Weights, i, outcome, nFail, nUpd, accvars>>

\* The test with the update of the iteration applied before the break.
TrainTest_UpdateBeforeBreak ==
    /\ pc = "test"
    /\ IF AllLt(J, Tenth)
       THEN /\ pc' = "done"
            /\ outcome' = "converged"
            /\ nFail' = nFail
            /\ Weights' = Descend(Weights, alpha, dJ)
       ELSE /\ pc' = "update"
            /\ outcome' = outcome
            /\ nFail' = nFail + 1
            /\ Weights' = Weights
    /\ UNCHANGED <<inputs, J, dJ, i, lambdat, nCost, nUpd, Wm, accvars>>

\* The test written as "no entry of J is >= 0.1": a NaN passes it.
TrainTest_NotGe ==
    /\ pc = "test"
    /\ IF \A c \in 1..Cols(J) : ~(FGt(J[1][c], Tenth) \/ J[1][c] = Tenth)
       THEN /\ pc' = "done"
            /\ outcome' = "converged"
            /\ nFail' = nFail
       ELSE /\ pc' = "update"
            /\ outcome' = outcome
            /\ nFail' = nFail + 1
    /\ UNCHANGED <<inputs, Weights, J, dJ, i, lambdat, nCost, nUpd, Wm, accvars>>

\* Line 75: if (alltrue<bool>(J < 0.1)) break;
TrainTest ==
    /\ pc = "test"
    /\ IF AllLt(J, Tenth)
       THEN /\ pc' = "done"
            /\ outcome' = "converged"
            /\ nFail' = nFail
       ELSE /\ pc' = "update"
            /\ outcome' = outcome
            /\ nFail' = nFail + 1
    /\ UNCHANGED <<inputs, Weights, J, dJ, i, lambdat, nCost, nUpd, Wm, accvars>>

\* Line 78 and the i++ of line 71.
TrainUpdate ==
    /\ pc = "update"
    /\ Weights' = Descend(Weights, alpha, dJ)
    /\ i' = i + 1
    /\ nUpd' = nUpd + 1
    /\ pc' = "loop"
    /\ UNCHANGED <<inputs, J, dJ, lambdat, outcome, nCost, nFail, Wm, accvars>>

\* Line 71 false, line 81: the loop ran out, return Weights.
TrainReturn ==
    /\ pc = "loop"
    /\ ~LoopCond(i, maxiter)
    /\ pc' = "done"
    /\ outcome' = "exhausted"
    /\ UNCHANGED <<inputs, Weights, J, dJ, i, lambdat, counters, Wm, accvars>>

\* lr_demo, lines 133 and 136: accuracy(predict(train_feats, Weights),
\* train_targets) on what train returned.
Report ==
    /\ pc = "done"
    /\ predicted' = predict(X, Weights)
    /\ target' = Y
    /\ acc' = accuracy(predict(X, Weights), Y)
    /\ pc' = "reported"
    /\ UNCHANGED <<inputs, Weights, J, dJ, i, lambdat, outcome, counters, Wm>>

Next == TrainCost \/ TrainTest \/ TrainUpdate \/ TrainReturn \/ Report

Spec == Init /\ [][Next]_vars

\* accuracy on its own: the caller holds a prediction and a one-hot target.
InitAcc ==
    /\ predicted \in Predictions
    /\ target \in OneHots
    /\ acc = Fin(0)
    /\ pc = "acc"
    /\ X = <<>> /\ Y = <<>> /\ alpha = Fin(0) /\ lambda = Fin(0) /\ maxiter = 0
    /\ Weights = <<>> /\ J = <<>> /\ dJ = <<>> /\ lambdat = <<>> /\ i = 0
    /\ outcome = "none"
    /\ nCost = 0 /\ nFail = 0 /\ nUpd = 0
    /\ Wm = <<>>

\* Lines 20 to 27: accuracy(predicted, target).
AccuracyCall ==
    /\ pc = "acc"
    /\ acc' = accuracy(predicted, target)
    /\ pc' = "accdone"
    /\ UNCHANGED <<inputs, Weights, J, dJ, i, lambdat, outcome, counters, Wm,
                   predicted, target>>

NextAcc == AccuracyCall

SpecAcc == InitAcc /\ [][NextAcc]_vars

----------------------------------------------------------------------------
(* What the properties below are stated with.  The gradient and the loss    *)
(* are written out entry by entry from the arrays of the last cost call:    *)
(* Wm is the Weights that call was given.                                   *)

AllFinite(A) == \A r \in 1..Rows(A) : \A c \in 1..Cols(A) : IsFinite(A[r][c])

\* Some prediction is exactly 0 or exactly 1.
Saturated(A) ==
    \E r \in 1..Rows(A) : \E c \in 1..Cols(A) : A[r][c] \in {Fin(0), Num(1)}

Zeros(n, k) == [r \in 1..n |-> [c \in 1..k |-> Fin(0)]]

Hm == predict(X, Wm)
M == Num(Rows(Y))
Mask(r) == IF r = 1 THEN Fin(0) ELSE lambda

\* Entry (r, c) of X^T . (H - Y).
DataGrad(r, c) ==
    SumSeq([s \in 1..Rows(X) |-> FMul(X[s][r], FSub(Hm[s][c], Y[s][c]))])

\* Entry (r, c) of mask * W.
RegGrad(r, c) == FMul(Mask(r), Wm[r][c])

\* Entry (s, c) of Y * log(H) + (1 - Y) * log(1 - H).
Entropy(s, c) ==
    FAdd(FMul(Y[s][c], log(Hm[s][c])),
         FMul(FSub(Num(1), Y[s][c]), log(FSub(Num(1), Hm[s][c]))))

\* Entry (r, c) of mask * W * W.
Penalty(r, c) == FMul(FMul(Mask(r), Wm[r][c]), Wm[r][c])

\* The loss of class c: both terms summed down column c only.
ClassLoss(c) ==
    FAdd(FDiv(FNeg(SumSeq([s \in 1..Rows(Y) |-> Entropy(s, c)])), M),
         FDiv(FMul(Half, SumSeq([r \in 1..Rows(Wm) |-> Penalty(r, c)])), M))

\* The loss with both terms summed over all entries.
TotalLoss ==
    FAdd(FDiv(FNeg(SumSeq([c \in 1..Cols(Y) |->
                     SumSeq([s \in 1..Rows(Y) |-> Entropy(s, c)])])), M),
         FDiv(FMul(Half, SumSeq([c \in 1..Cols(Wm) |->
                     SumSeq([r \in 1..Rows(Wm) |-> Penalty(r, c)])])), M))

Returned == pc \in {"done", "reported"}
\* train returned through the break of line 75.
Converged == Returned /\ nCost = nFail + 1
\* train returned because the loop condition of line 71 was false.
Exhausted == Returned /\ nCost = nFail

\* Entry by entry, Weights is Wm - alpha * dJ.
OneStepAhead ==
    /\ Dims(Weights) = Dims(Wm)
    /\ \A r \in 1..Rows(Wm) : \A c \in 1..Cols(Wm) :
          Weights[r][c] = FSub(Wm[r][c], FMul(alpha, dJ[r][c]))

\* The number of iterations a loop bounded by maxiter can make.
Budget == IF maxiter > 0 THEN maxiter ELSE 0

----------------------------------------------------------------------------
(* Properties.                                                              *)

\* The statements train and its caller still have to run, at most.
StepsLeft ==
    IF pc = "reported" THEN 0
    ELSE IF pc = "done" THEN 1
    ELSE 3 * (Budget - i)
         + (IF pc = "loop" THEN 3 ELSE IF pc = "test" THEN 2 ELSE 1)

\* C1: train terminates: every step takes StepsLeft, which is never
\* negative, strictly down, so train returns within 3 * maxiter + 2 steps.
\* It returns either through the break after a cost evaluation whose loss
\* was under 0.1 (and then fewer than maxiter iterations were completed) or
\* because maxiter iterations were run, never both; for maxiter >= 0 cost
\* is called at most maxiter times and at most maxiter updates are applied.
C1_TrainTerminates ==
    /\ [](StepsLeft >= 0 /\ i <= Budget)
    /\ [][StepsLeft' < StepsLeft]_vars
    /\ [](Returned =>
            \/ (Converged /\ AllLt(J, Tenth) /\ nUpd < maxiter)
            \/ (Exhausted /\ nUpd = Budget /\ ~LoopCond(i, maxiter)))
    /\ [](~(Converged /\ Exhausted))
    /\ [](maxiter >= 0 => nCost <= maxiter /\ nUpd <= maxiter)

\* C1 witness: a run that used its whole budget of MaxIter iterations.
C1_Witness == Exhausted /\ maxiter = MaxIter /\ nCost = MaxIter /\ nUpd = MaxIter

\* C2: in an iteration cost is evaluated on the current Weights, then J is
\* tested, then Weights is updated; when the test succeeds the update is not
\* applied, so the returned Weights is the one the loss below 0.1 was
\* measured on, and neither a cost evaluation nor an update follows.
C2_TestBeforeUpdate ==
    /\ [](Converged =>
            /\ Weights = Wm
            /\ Dims(J) = <<1, Cols(Y)>>
            /\ \A c \in 1..Cols(Y) : J[1][c] = ClassLoss(c) /\ FLt(J[1][c], Tenth)
            /\ nUpd = nCost - 1)
    /\ [][/\ (pc = "loop" => pc' \in {"test", "done"})
          /\ (pc' = "test" => Wm' = Weights /\ nCost' = nCost + 1
                                /\ UNCHANGED <<Weights, nUpd>>)
          /\ (pc = "test" => /\ pc' = (IF AllLt(J, Tenth) THEN "done" ELSE "update")
                             /\ UNCHANGED <<Weights, J, dJ, nCost, nUpd>>)
          /\ (pc = "update" => pc' = "loop" /\ nUpd' = nUpd + 1
                                /\ UNCHANGED <<J, dJ, nCost>>)
          /\ (Converged => UNCHANGED <<Weights, J, dJ, nCost, nUpd>>)]_vars

\* C2 witness: train returned through the break after at least one update.
C2_Witness == Converged /\ nUpd >= 1 /\ pc = "done"

\* C3 as claimed: train stops at an iteration exactly when the loss summed
\* over all entries is below 0.1.
C3_Original ==
    /\ (pc = "update" => ~FLt(TotalLoss, Tenth))
    /\ (Converged => FLt(TotalLoss, Tenth))

\* C3 amended: J has one entry per class, the cross-entropy term and the
\* regularization term summed down that class's column only, and train stops
\* at an iteration exactly when every class's loss is below 0.1.
C3_PerClassLoss ==
    /\ (nCost >= 1 =>
          /\ Dims(J) = <<1, Cols(Y)>>
          /\ \A c \in 1..Cols(Y) : J[1][c] = ClassLoss(c))
    /\ (pc = "update" => \E c \in 1..Cols(Y) : ~FLt(ClassLoss(c), Tenth))
    /\ (Converged => \A c \in 1..Cols(Y) : FLt(ClassLoss(c), Tenth))

\* C3 witness: train stopped with every class's loss below 0.1 while the
\* loss summed over all entries was not.
C3_Witness ==
    /\ Converged
    /\ Cols(Y) >= 2
    /\ \A c \in 1..Cols(Y) : FLt(ClassLoss(c), Tenth)
    /\ ~FLt(TotalLoss, Tenth)

\* C4 as claimed: dJ = (1/m) (X^T . (H - Y)) + mask * W, the regularization
\* term not divided by m, and dJ has the shape of W.
C4_Original ==
    nCost >= 1 =>
        /\ Dims(dJ) = Dims(Wm)
        /\ \A r \in 1..Rows(Wm) : \A c \in 1..Cols(Wm) :
              dJ[r][c] = FAdd(FDiv(DataGrad(r, c), M), RegGrad(r, c))

\* C4 amended: dJ = (X^T . (H - Y) + mask * W) / m, both terms divided by
\* m, and dJ has the shape of W.
C4_GradientScaled ==
    nCost >= 1 =>
        /\ Dims(dJ) = Dims(Wm)
        /\ \A r \in 1..Rows(Wm) : \A c \in 1..Cols(Wm) :
              dJ[r][c] = FDiv(FAdd(DataGrad(r, c), RegGrad(r, c)), M)

\* C4 witness: a cost evaluation with m >= 2 and a regularization term that
\* is not zero.
C4_Witness ==
    /\ nCost >= 2
    /\ Rows(Y) >= 2
    /\ \E r \in 1..Rows(Wm) : \E c \in 1..Cols(Wm) : RegGrad(r, c) # Fin(0)

\* C5: the mask of cost is 0 in row 0 and lambda in every other row; row 0
\* of dJ is the data term alone, row 0 of W adds nothing to the
\* regularization part of J, and every update of row 0 of W is made with the
\* data term alone.
C5_BiasRowUnregularized ==
    nCost >= 1 =>
        /\ Dims(lambdat) = Dims(Wm)
        /\ \A r \in 1..Rows(Wm) : \A c \in 1..Cols(Wm) :
              lambdat[r][c] = (IF r = 1 THEN Fin(0) ELSE lambda)
        /\ \A c \in 1..Cols(Wm) :
              /\ dJ[1][c] = FDiv(DataGrad(1, c), M)
              /\ J[1][c] =
                    FAdd(FDiv(FNeg(SumSeq([s \in 1..Rows(Y) |-> Entropy(s, c)])), M),
                         FDiv(FMul(Half,
                                   SumSeq([r \in 1..(Rows(Wm) - 1) |->
                                       FMul(FMul(lambda, Wm[r + 1][c]), Wm[r + 1][c])])),
                              M))
              /\ (pc = "loop" /\ nUpd >= 1 =>
                    Weights[1][c] =
                        FSub(Wm[1][c], FMul(alpha, FDiv(DataGrad(1, c), M))))

\* C5 witness: with lambda = 1, an update made on a bias row that is not 0.
C5_Witness ==
    /\ pc = "loop"
    /\ nUpd >= 2
    /\ lambda = Num(1)
    /\ \E c \in 1..Cols(Wm) : Wm[1][c] # Fin(0) /\ Weights[1][c] # Wm[1][c]

\* C6: accuracy returns 100 * matches / rows, matches the number of rows
\* whose argmax index is the same in predicted and in target; the result is
\* in [0, 100], it is 100 for identical one-hot arrays and 0 when the argmax
\* differs in every row.
C6_Accuracy ==
    pc = "accdone" =>
        LET matches == Cardinality({r \in 1..Rows(target) :
                           MaxIdx(predicted)[r] = MaxIdx(target)[r]})
        IN  /\ acc = FDiv(Num(100 * matches), Num(Rows(target)))
            /\ IsFinite(acc) /\ acc.v >= 0 /\ acc.v <= 100 * Scale
            /\ (predicted = target => acc = Num(100))
            /\ (matches = 0 => acc = Fin(0))

\* C6 witness: accuracy has been called on identical one-hot arrays.
C6_Witness == pc = "accdone" /\ predicted = target

\* C7 as claimed: the updates that follow a cost evaluation with a
\* non-finite J produce non-finite weights.
C7_Original ==
    (pc = "loop" /\ nUpd >= 1 /\ ~AllFinite(J)) => ~AllFinite(Weights)

\* C7 amended: a non-finite J (predictions saturated to exactly 0 or 1) is
\* not an error and fails the test, so the update is applied; dJ is computed
\* from H, X, Y and W without J or a logarithm and is finite, and the
\* weights the update produces, W - alpha * dJ, are finite.
C7_LossDoesNotReachWeights ==
    /\ (nCost >= 1 /\ ~AllFinite(J) /\ AllFinite(Wm) =>
          /\ AllFinite(dJ)
          /\ pc \in {"test", "update", "loop"} \/ Exhausted)
    /\ (pc = "loop" /\ nUpd >= 1 /\ ~AllFinite(J) /\ AllFinite(Wm) =>
          /\ OneStepAhead
          /\ AllFinite(Weights))

\* C7 witness: an update has been applied after a cost evaluation whose
\* predictions were saturated and whose J was not finite.
C7_Witness ==
    pc = "loop" /\ nUpd >= 1 /\ ~AllFinite(J) /\ Saturated(Hm) /\ AllFinite(Wm)

\* C8: Weights has one writer, the update step of train; the cost step, the
\* test, the return and the calls of predict and accuracy leave it alone,
\* and X and Y never change.
C8_SingleWriter ==
    [][/\ UNCHANGED <<X, Y>>
       /\ (Weights' # Weights => pc = "update" /\ pc' = "loop")
       /\ (pc \in {"loop", "test", "done"} => UNCHANGED Weights)]_vars

\* C8 witness: cost, the update, predict and accuracy have all run and
\* Weights has been written.
C8_Witness == pc = "reported" /\ nUpd >= 1 /\ Weights # InitWeights(X, Y)

\* C9: train starts from the all-zero array of shape X.dims(1) x Y.dims(1),
\* the first cost evaluation is made on it, and with maxiter <= 0 train
\* returns it without a cost evaluation.
C9_ZeroStart ==
    /\ (nCost = 0 => Weights = Zeros(Cols(X), Cols(Y)))
    /\ (nCost = 1 => Wm = Zeros(Cols(X), Cols(Y)))
    /\ (maxiter <= 0 /\ Returned =>
            Weights = Zeros(Cols(X), Cols(Y)) /\ nCost = 0 /\ J = <<>>)

\* C9 witness: train has returned with maxiter <= 0 on an X with more
\* columns than rows.
C9_Witness == Returned /\ maxiter <= 0 /\ Cols(X) > Rows(X)

====
